---- MODULE Spec2Model ----
(***************************************************************************)
(* Model of the Azure AI Search MCP server                                 *)
(* (src/enterprise_mcp_auth/server/ai_search_mcp_server.py): the four MCP  *)
(* tools, the OBO token exchange they perform through MSAL, and the calls  *)
(* they send to the search service.                                        *)
(*                                                                         *)
(* A tool handler is followed through its network calls: it starts         *)
(* (get_access_token, initialize_msal, the request to the identity         *)
(* provider), continues when acquire_token_on_behalf_of returns (the rest  *)
(* of get_obo_token, get_search_client_with_obo, the request to the search *)
(* service) and ends when the search service answers.  The identity        *)
(* provider and the search service are the environment: their answers are  *)
(* drawn from small sets.  The search service filters by the identity in   *)
(* the x-ms-query-source-authorization token, and the provider issues      *)
(* tokens for the subject of the assertion it is given.                    *)
(***************************************************************************)
EXTENDS Integers, Sequences, FiniteSets, TLC

VARIABLES
    env,          \* the environment variables that are set (non-empty)
    phase,        \* "boot", "serving" (mcp.run) or "fatal" (main raised)
    msal_app,     \* the module global msal_app
    now,          \* the clock
    req,          \* req[r]: the tool call r and when it arrived, None before
    pc,           \* pc[r]: where handler r is
    obo,          \* obo[r]: the handler's local obo_token
    exchange,     \* exchange[r]: the handler's requests to the provider
    store_call,   \* store_call[r]: the request sent to the search service
    outcome,      \* outcome[r]: what the handler returned or raised
    cli,          \* a run of a command-line front end, None when none runs
    log,          \* log[h]: what handler h has logged (h = 0: main)
    graph,        \* a run of the supervisor graph of the agent
    mcp_client,   \* the AuthenticatedMCPClient of the agent
    ingest,       \* a run of the ingestion script
    legacy        \* the module globals of the OAuthProxy variant of the server

vars == <<env, phase, msal_app, now, req, pc, obo, exchange, store_call, outcome, cli,
          log, graph, mcp_client, ingest, legacy>>

\* The variables of the programs beside the server and its front ends.
AgentVars == <<graph, mcp_client, ingest, legacy>>

---------------------------------------------------------------------------
(* Bounds *)

MaxReqs == 2
MaxTime == 1

Reqs == 1..MaxReqs

---------------------------------------------------------------------------
(* Values *)

None == [none |-> TRUE]

Get(d, k, default) == IF k \in DOMAIN d THEN d[k] ELSE default

Range(s) == {s[i] : i \in DOMAIN s}

Min(a, b) == IF a <= b THEN a ELSE b

RequiredVars ==
    {"AZURE_SEARCH_ENDPOINT", "AZURE_SEARCH_INDEX", "AZURE_SEARCH_ADMIN_KEY",
     "AZURE_CLIENT_ID", "AZURE_CLIENT_SECRET", "AZURE_TENANT_ID"}

\* The users that call the server, and the groups the directory puts them in.
Users == {"U1", "U2"}

GroupsOf(u) == IF u = "U2" THEN {"G1"} ELSE {}

\* The bearer token of a request of user u, as FastMCP's get_access_token
\* hands it to a tool: .token is the raw token, .claims its verified claims.
AccessToken(u) ==
    [token  |-> [iss |-> "login", aud |-> "mcp-server", oid |-> u,
                 scp |-> "user_impersonation", sub |-> u, sig |-> "signature"],
     claims |-> [sub |-> u, name |-> u]]

NoCaller == "anonymous"

Callers == Users \cup {NoCaller}

---------------------------------------------------------------------------
(* The index and the search service (the environment) *)

\* The fields of the index: every field is retrievable, oid and group carry
\* the permission filters USER_IDS and GROUP_IDS.
IndexFields == {"id", "oid", "group", "content"}

Document(id, oids, groups, content) ==
    [id |-> id, oid |-> oids, group |-> groups, content |-> content]

\* The documents in the index, in the order the service ranks them.
Index ==
    << Document("doc1", <<"U1">>, <<>>, "alpha"),
       Document("doc2", <<>>, <<"G1">>, "alpha"),
       Document("doc3", <<"U2">>, <<"G2">>, "beta") >>

DocIds == {Index[i]["id"] : i \in DOMAIN Index}

Keys == DocIds \cup {"nope"}

Matches(d, query) == query = "*" \/ d["content"] = query

\* The permission filter of the service: the identity is the one in the token
\* of x-ms-query-source-authorization; without a token no document that has
\* permission fields is visible.
Visible(d, authorization) ==
    /\ authorization # None
    /\ \/ authorization.oid \in Range(d["oid"])
       \/ GroupsOf(authorization.oid) \cap Range(d["group"]) # {}

\* The keys a result carries besides the fields of the document.
AtKeys == {"@search.score", "@search.text"}

StartsWithAt(k) == k \in AtKeys

WithKey(d, k, v) == (k :> v) @@ d

Hits(call) ==
    LET found == SelectSeq(Index,
                    LAMBDA d : Matches(d, call.search_text)
                               /\ Visible(d, call.x_ms_query_source_authorization))
    IN  SubSeq(found, 1, Min(call.top, Len(found)))

\* What the service answers to a request it does not fail.
SearchResults(call) ==
    [i \in DOMAIN Hits(call) |-> WithKey(Hits(call)[i], "@search.score", 1)]

\* A suggestion carries the key field alone (the request names no select).
SuggestResults(call) ==
    [i \in DOMAIN Hits(call) |->
        WithKey([id |-> Hits(call)[i]["id"]], "@search.text", Hits(call)[i]["content"])]

Lookup(call) ==
    {i \in DOMAIN Index :
        /\ Index[i]["id"] = call.key
        /\ Visible(Index[i], call.x_ms_query_source_authorization)}

\* The errors a request to the service can end with.  A key that is absent
\* and a key whose document is filtered out are both answered with an error.
ServiceErrors == {"ServiceUnavailable"}

LookupErrors == {"ResourceNotFound", "Forbidden"}

HttpResponseError(kind, call) ==
    [type |-> kind, op |-> call.op,
     key |-> IF call.op = "get_document" THEN call.key ELSE ""]

---------------------------------------------------------------------------
(* The identity provider (the environment) *)

SearchScopes == {"https://search.azure.com/.default"}

\* How long the tokens of the provider live, and the margin before expiry
\* within which a token no longer counts as live.
SafetyMargin == 1

Lifetime == SafetyMargin + 1

Lifetimes == {Lifetime, Lifetime + 1}

\* The on-behalf-of grant: a token for the subject of the assertion, for the
\* search service.  Every grant is a new token (jti).
OboToken(user_assertion, life, jti) ==
    [oid |-> user_assertion.oid, aud |-> "https://search.azure.com",
     exp |-> now + life, jti |-> jti, sig |-> "signature"]

ProviderErrors ==
    {"ConsentRequired", "InvalidAssertion", "ProviderUnavailable", "ScopeDenied"}

ErrorDescription(kind) == <<"AADSTS", kind>>

\* The dictionaries acquire_token_on_behalf_of can return: a token, an OAuth
\* error, or (plain) a dictionary with neither.
ProviderResults(user_assertion, jti, lives, errors, plain) ==
    {[access_token |-> OboToken(user_assertion, life, jti)] : life \in lives}
    \cup {[error |-> k, error_description |-> ErrorDescription(k)] : k \in errors}
    \cup {[correlation_id |-> "c"] : x \in plain}

---------------------------------------------------------------------------
(* The server *)

\* A fault: the token is read from a module global that the last request to
\* arrive with a token has set, not from the context of the request.
get_access_token_stale(caller) ==
    LET seen == {q \in Reqs : req[q] # None /\ req[q].caller # NoCaller}
    IN  IF caller = NoCaller THEN None
        ELSE IF seen = {} THEN AccessToken(caller)
        ELSE AccessToken(req[CHOOSE q \in seen : \A p \in seen : p <= q].caller)

\* get_access_token(): the token of the request, None for a request that
\* carries none.
get_access_token(caller) ==
    IF caller = NoCaller THEN None ELSE AccessToken(caller)

\* A fault: main() checks the variables of the search service alone.
missing_vars_search ==
    {"AZURE_SEARCH_ENDPOINT", "AZURE_SEARCH_INDEX", "AZURE_SEARCH_ADMIN_KEY"} \ env

\* main(): the required variables that are not set.
missing_vars == RequiredVars \ env

\* msal.ConfidentialClientApplication(...): a new object each time it is
\* constructed, told apart by the number of tool calls begun before it.
ConfidentialClientApplication ==
    [client_id |-> "AZURE_CLIENT_ID",
     authority |-> "AZURE_TENANT_ID",
     client_credential |-> "AZURE_CLIENT_SECRET",
     instance |-> Cardinality({q \in Reqs : pc[q] # "idle"})]

\* A fault: the application is constructed anew by every call.
initialize_msal_again ==
    IF {"AZURE_CLIENT_ID", "AZURE_TENANT_ID"} \subseteq env
    THEN ConfidentialClientApplication
    ELSE None

\* initialize_msal(): the value of msal_app after the call.
initialize_msal ==
    IF msal_app # None
    THEN msal_app
    ELSE IF {"AZURE_CLIENT_ID", "AZURE_TENANT_ID"} \subseteq env
         THEN ConfidentialClientApplication
         ELSE None

Returned(v) == [kind |-> "return", value |-> v]

\* A Python list, as opposed to a dict (a function on its keys).
List(s) == [list |-> s]

\* A fault: the exception is caught and handed back as an error value.
Raised_value(e) == [kind |-> "return", value |-> [error |-> e]]

Raised(e) == [kind |-> "raise", exc |-> e]

\* A fault: search and suggest answer a missing token with the dict itself.
NotAuthenticated_dict(op) == [error |-> "Not authenticated"]

\* The result of a tool that finds no access token.
NotAuthenticated(op) ==
    IF op \in {"search_documents", "suggest"}
    THEN List(<< [error |-> "Not authenticated"] >>)
    ELSE [error |-> "Not authenticated"]

\* get_user_info(): claims.get(...) of the five claims.
UserInfo(token) ==
    [azure_id        |-> Get(token.claims, "sub", None),
     email           |-> Get(token.claims, "email", None),
     name            |-> Get(token.claims, "name", None),
     job_title       |-> Get(token.claims, "job_title", None),
     office_location |-> Get(token.claims, "office_location", None)]

\* A fault: a failed exchange is remembered, and a later request with the same
\* assertion is refused without asking the provider.
OboRequest_remembers(app, user_token) ==
    IF app = None
    THEN Raised(<<"MSAL app not initialized. Check AZURE_CLIENT_ID and AZURE_TENANT_ID.">>)
    ELSE IF \E q \in Reqs : /\ pc[q] = "failed"
                            /\ exchange[q] # <<>>
                            /\ exchange[q][1].user_assertion = user_token
         THEN Raised(<<"OBO token acquisition failed", "cached", "cached">>)
         ELSE Returned([user_assertion |-> user_token, scopes |-> SearchScopes,
                        result |-> None, answered |-> now])

\* get_obo_token() up to its request to the provider: the exception it
\* raises, or the arguments of acquire_token_on_behalf_of.
OboRequest(app, user_token) ==
    IF app = None
    THEN Raised(<<"MSAL app not initialized. Check AZURE_CLIENT_ID and AZURE_TENANT_ID.">>)
    ELSE Returned([user_assertion |-> user_token, scopes |-> SearchScopes,
                   result |-> None, answered |-> now])

\* decode_jwt_payload(): the claims of the payload part of the token.
decode_jwt_payload(token) == [k \in DOMAIN token \ {"sig"} |-> token[k]]

\* A record of the log: logger.info(...) or logger.error(...).  about is
\* "user" or "obo" in a line that gives a claim of that token.
LogRecord(level, about, line, value) ==
    [level |-> level, about |-> about, line |-> line, value |-> value]

info(line) == LogRecord("INFO", "", line, "")

\* logging.basicConfig(level=logging.INFO): the levels that are written.
Written == {"INFO", "WARNING", "ERROR"}

UserClaimsLogged == <<"iss", "aud", "oid", "scp", "azp">>

OboClaimsLogged == <<"iss", "aud", "oid">>

\* logger.info(f"  {name}: {claims.get(name, 'N/A')}") for each name.
ClaimLines(about, claims, names) ==
    [i \in DOMAIN names |->
        LogRecord("INFO", about, names[i], Get(claims, names[i], "N/A"))]

\* main(): the lines logged before mcp.run.
LogStart ==
    << info("Starting Azure AI Search MCP Server"),
       LogRecord("INFO", "", "Search Endpoint", "AZURE_SEARCH_ENDPOINT"),
       LogRecord("INFO", "", "Search Index", "AZURE_SEARCH_INDEX"),
       LogRecord("INFO", "", "Azure Client ID", "AZURE_CLIENT_ID"),
       LogRecord("INFO", "", "Azure Tenant ID", "AZURE_TENANT_ID") >>

\* get_obo_token(): the lines logged before acquire_token_on_behalf_of.
LogRequest(user_token) ==
    << info("=== OBO Token Exchange ==="), info("User token claims:") >>
    \o ClaimLines("user", decode_jwt_payload(user_token), UserClaimsLogged)
    \o << info("Requesting OBO token for Azure AI Search..."),
          LogRecord("INFO", "", "Scopes", "https://search.azure.com/.default") >>

\* A fault: the answer of the provider is dumped to the log whatever it is.
LogResult_full(result) ==
    << LogRecord("ERROR", "", "Full result", result) >>

\* get_obo_token(): the lines logged after acquire_token_on_behalf_of.
LogResult(result) ==
    IF "access_token" \in DOMAIN result
    THEN << info("OBO token acquired successfully!"), info("OBO token claims:") >>
         \o ClaimLines("obo", decode_jwt_payload(result["access_token"]), OboClaimsLogged)
    ELSE << LogRecord("ERROR", "", "OBO token acquisition failed!", ""),
            LogRecord("ERROR", "", "Error", Get(result, "error", "unknown_error")),
            LogRecord("ERROR", "", "Description",
                      Get(result, "error_description", "Failed to acquire OBO token")),
            LogRecord("ERROR", "", "Full result", result) >>

\* The records of a level that is written are added to the log of handler h.
Logged(h, records) ==
    [log EXCEPT ![h] = @ \o SelectSeq(records, LAMBDA e : e.level \in Written)]

\* A fault: a token granted earlier for the same subject is handed out again.
get_obo_token_cached(result) ==
    IF "access_token" \in DOMAIN result
    THEN LET kept == {t \in {obo[q] : q \in Reqs} \ {None} :
                         t.oid = result["access_token"].oid}
         IN  Returned(IF kept = {} THEN result["access_token"]
                      ELSE CHOOSE t \in kept : TRUE)
    ELSE Raised(<<"OBO token acquisition failed",
                  Get(result, "error", "unknown_error"),
                  Get(result, "error_description", "Failed to acquire OBO token")>>)

\* A fault: the answer is read with result.get("access_token") and an error
\* of the provider goes unnoticed.
get_obo_token_unchecked(result) ==
    Returned(Get(result, "access_token", None))

\* A fault: the exception does not say which error the provider gave.
get_obo_token_generic(result) ==
    IF "access_token" \in DOMAIN result
    THEN Returned(result["access_token"])
    ELSE Raised(<<"OBO token acquisition failed">>)

\* get_obo_token() from the answer of the provider on: the access token, or
\* the exception with the provider's error and description.
get_obo_token(result) ==
    IF "access_token" \in DOMAIN result
    THEN Returned(result["access_token"])
    ELSE Raised(<<"OBO token acquisition failed",
                  Get(result, "error", "unknown_error"),
                  Get(result, "error_description", "Failed to acquire OBO token")>>)

\* A fault: the client secret is used as the key of the search service.
SearchCredential_secret == [key |-> "AZURE_CLIENT_SECRET"]

\* The credential the SearchClient is built with.
SearchCredential == [key |-> "AZURE_SEARCH_ADMIN_KEY"]

SearchClient ==
    [endpoint   |-> "AZURE_SEARCH_ENDPOINT",
     index_name |-> "AZURE_SEARCH_INDEX",
     credential |-> SearchCredential]

\* A fault: the OBO token is kept in state the handlers share, and a handler
\* picks up a token another handler left there.
get_search_client_with_obo_shared(result) ==
    LET got == get_obo_token(result)
        left == {obo[q] : q \in Reqs} \ {None}
    IN  IF got.kind = "raise"
        THEN got
        ELSE Returned([search_client |-> SearchClient,
                       obo_token |-> IF left = {} THEN got.value
                                     ELSE CHOOSE t \in left : TRUE])

\* get_search_client_with_obo(): the pair (search_client, obo_token).
get_search_client_with_obo(result) ==
    LET got == get_obo_token(result)
    IN  IF got.kind = "raise"
        THEN got
        ELSE Returned([search_client |-> SearchClient, obo_token |-> got.value])

\* A fault: the request is sent without x_ms_query_source_authorization.
StoreRequest_unauthorized(r, search_client, obo_token) ==
    [op |-> req[r].op,
     credential |-> search_client.credential,
     x_ms_query_source_authorization |-> None,
     search_text |-> req[r].query,
     key |-> req[r].id,
     top |-> req[r].top,
     time |-> now]

\* The request a tool sends to the search service.
StoreRequest(r, search_client, obo_token) ==
    [op |-> req[r].op,
     credential |-> search_client.credential,
     x_ms_query_source_authorization |-> obo_token,
     search_text |-> req[r].query,
     key |-> req[r].id,
     top |-> req[r].top,
     time |-> now]

\* A fault: the result of the service is returned as it came.
Project_raw(result) == result

\* {k: v for k, v in result.items() if not k.startswith("@")}
Project(result) ==
    [k \in {x \in DOMAIN result : ~StartsWithAt(x)} |-> result[k]]

\* A fault: the server remembers what it has returned and leaves out the
\* documents a tool has returned before.
Documents_fresh(results) ==
    LET Seen == UNION {{outcome[q].value.list[i]["id"] : i \in DOMAIN outcome[q].value.list} :
                  q \in {x \in Reqs : /\ pc[x] = "completed"
                                      /\ req[x].op \in {"search_documents", "suggest"}
                                      /\ req[x].caller \in Users}}
        fresh == SelectSeq(results, LAMBDA d : d["id"] \notin Seen)
    IN  List([i \in DOMAIN fresh |->
                [k \in {x \in DOMAIN fresh[i] : x \notin {"@search.score", "@search.text"}} |->
                    fresh[i][k]]])

\* A fault: the server checks the results itself and drops the documents
\* that name no user.
Documents_checked(results) ==
    List([i \in DOMAIN SelectSeq(results, LAMBDA d : d["id"] # "doc2") |->
            [k \in {x \in DOMAIN results[1] : x \notin {"@search.score", "@search.text"}} |->
                SelectSeq(results, LAMBDA d : d["id"] # "doc2")[i][k]]])

\* The documents list a tool builds from the results of the service.
Documents(results) == List([i \in DOMAIN results |-> Project(results[i])])

\* A fault: every exception of the service is answered with one fixed error.
DocumentError_swallow(e, id) ==
    [error |-> [type |-> "DocumentNotFound", op |-> e.op, key |-> e.key], id |-> id]

\* A fault: the error value carries the token the request was sent with.
DocumentError_debug(e, id) ==
    [error |-> e, id |-> id,
     obo_token |-> CHOOSE t \in {obo[q] : q \in Reqs} \ {None} : TRUE]

\* get_document: the value returned for an exception of the service.
DocumentError(e, id) == [error |-> e, id |-> id]

---------------------------------------------------------------------------
(* Actions *)

Init ==
    /\ env \in SUBSET RequiredVars
    /\ phase = "boot"
    /\ msal_app = None
    /\ now = 0
    /\ req = [r \in Reqs |-> None]
    /\ pc = [r \in Reqs |-> "idle"]
    /\ obo = [r \in Reqs |-> None]
    /\ exchange = [r \in Reqs |-> <<>>]
    /\ store_call = [r \in Reqs |-> None]
    /\ outcome = [r \in Reqs |-> None]
    /\ cli = None
    /\ log = [h \in 0..MaxReqs |-> <<>>]
    /\ graph = None
    /\ mcp_client = None
    /\ ingest = None
    /\ legacy = None

\* main(): a missing variable is fatal, otherwise the server runs.
main ==
    /\ phase = "boot"
    /\ IF missing_vars # {}
       THEN phase' = "fatal" /\ UNCHANGED <<msal_app, log>>
       ELSE phase' = "serving" /\ msal_app' = initialize_msal /\ log' = Logged(0, LogStart)
    /\ UNCHANGED <<env, now, req, pc, obo, exchange, store_call, outcome, cli, AgentVars>>

Tick ==
    /\ now < MaxTime
    /\ now' = now + 1
    /\ UNCHANGED <<env, phase, msal_app, req, pc, obo, exchange, store_call, outcome, cli, log, AgentVars>>

\* Requests arrive in the order of their numbers.
Arrives(r) ==
    /\ phase = "serving"
    /\ pc[r] = "idle"
    /\ \A q \in Reqs : q < r => pc[q] # "idle"

Finish(r, state, result) ==
    /\ pc' = [pc EXCEPT ![r] = state]
    /\ outcome' = [outcome EXCEPT ![r] = result]

Arrived(call) ==
    [op |-> call.op, caller |-> call.caller, query |-> call.query,
     id |-> call.id, top |-> call.top, at |-> now]

\* A tool up to its first request: get_access_token, and for the three search
\* tools get_search_client_with_obo up to acquire_token_on_behalf_of.
Start(r, call) ==
    LET access_token == get_access_token(call.caller)
        app == initialize_msal
        request == OboRequest(app, access_token.token)
    IN  /\ req' = [req EXCEPT ![r] = Arrived(call)]
        /\ IF access_token = None
           THEN /\ Finish(r, "completed", Returned(NotAuthenticated(call.op)))
                /\ UNCHANGED <<msal_app, exchange, log>>
           ELSE IF call.op = "get_user_info"
           THEN /\ Finish(r, "completed", Returned(UserInfo(access_token)))
                /\ UNCHANGED <<msal_app, exchange, log>>
           ELSE /\ msal_app' = app
                /\ IF request.kind = "raise"
                   THEN Finish(r, "failed", request) /\ UNCHANGED <<exchange, log>>
                   ELSE /\ exchange' = [exchange EXCEPT ![r] = <<request.value>>]
                        /\ log' = Logged(r, LogRequest(access_token.token))
                        /\ pc' = [pc EXCEPT ![r] = "exchanging"]
                        /\ UNCHANGED outcome
        /\ UNCHANGED <<env, phase, now, obo, store_call, cli, AgentVars>>

Call(op, caller, query, id, top) ==
    [op |-> op, caller |-> caller, query |-> query, id |-> id, top |-> top]

\* The tool calls of the model: every tool by every caller; search with a
\* small and a large top; get_document of a document the first user may
\* see and the second may not, and of a key that is not in the index.
Calls ==
    {Call("search_documents", c, "alpha", "", top) : c \in Users, top \in {1, 500}}
    \cup {Call("suggest", c, "alpha", "", 500) : c \in Users}
    \cup {Call("get_document", c, "", id, 0) : c \in Users, id \in {"doc1", "nope"}}
    \cup {Call("get_user_info", c, "", "", 0) : c \in Users}
    \cup {Call("search_documents", NoCaller, "alpha", "", 5),
          Call("suggest", NoCaller, "alpha", "", 5),
          Call("get_document", NoCaller, "", "doc1", 0),
          Call("get_user_info", NoCaller, "", "", 0)}

\* The calls of the specifications that follow the exchange.
ExchangeCalls ==
    {Call("search_documents", c, "*", "", 5) : c \in Users}
    \cup {Call("get_document", "U1", "", "doc1", 0)}

search_documents(r, menu) ==
    /\ Arrives(r)
    /\ \E call \in menu : call.op = "search_documents" /\ Start(r, call)

get_document(r, menu) ==
    /\ Arrives(r)
    /\ \E call \in menu : call.op = "get_document" /\ Start(r, call)

suggest(r, menu) ==
    /\ Arrives(r)
    /\ \E call \in menu : call.op = "suggest" /\ Start(r, call)

get_user_info(r, menu) ==
    /\ Arrives(r)
    /\ \E call \in menu : call.op = "get_user_info" /\ Start(r, call)

Answered(r, result) ==
    [exchange EXCEPT ![r][Len(exchange[r])].result = result,
                     ![r][Len(exchange[r])].answered = now]

\* acquire_token_on_behalf_of returns: the rest of get_obo_token and of
\* get_search_client_with_obo, and the tool's request to the search service.
ProviderReturns(r, lives, errors, plain) ==
    /\ pc[r] = "exchanging"
    /\ \E result \in ProviderResults(exchange[r][Len(exchange[r])].user_assertion,
                                     <<r, Len(exchange[r])>>, lives, errors, plain) :
        LET got == get_search_client_with_obo(result)
        IN  /\ exchange' = Answered(r, result)
            /\ log' = Logged(r, LogResult(result))
            /\ IF got.kind = "raise"
               THEN /\ Finish(r, "failed", got)
                    /\ UNCHANGED <<obo, store_call>>
               ELSE /\ obo' = [obo EXCEPT ![r] = got.value.obo_token]
                    /\ store_call' = [store_call EXCEPT ![r] =
                            StoreRequest(r, got.value.search_client, got.value.obo_token)]
                    /\ pc' = [pc EXCEPT ![r] = "executing"]
                    /\ UNCHANGED outcome
    /\ UNCHANGED <<env, phase, msal_app, now, req, cli, AgentVars>>

\* acquire_token_on_behalf_of raises (the network fails, the call times out):
\* the exception leaves the tool.
ProviderRaises(r) ==
    /\ pc[r] = "exchanging"
    /\ exchange' = Answered(r, [raised |-> "Timeout"])
    /\ Finish(r, "failed", Raised(<<"Timeout">>))
    /\ UNCHANGED <<env, phase, msal_app, now, req, obo, store_call, cli, log, AgentVars>>

\* The search service answers search or suggest: the tool returns the
\* projected documents.
ResultsReturn(r) ==
    /\ pc[r] = "executing"
    /\ store_call[r].op \in {"search_documents", "suggest"}
    /\ LET results == IF store_call[r].op = "suggest"
                      THEN SuggestResults(store_call[r])
                      ELSE SearchResults(store_call[r])
       IN  Finish(r, "completed", Returned(Documents(results)))
    /\ UNCHANGED <<env, phase, msal_app, now, req, obo, exchange, store_call, cli, log, AgentVars>>

\* The search service answers get_document with the document.
DocumentReturns(r) ==
    /\ pc[r] = "executing"
    /\ store_call[r].op = "get_document"
    /\ \E i \in Lookup(store_call[r]) :
        Finish(r, "completed", Returned(Project(Index[i])))
    /\ UNCHANGED <<env, phase, msal_app, now, req, obo, exchange, store_call, cli, log, AgentVars>>

\* The search service fails a request: search and suggest let the exception
\* through, get_document returns it as an error value.
ServiceRaises(r) ==
    /\ pc[r] = "executing"
    /\ \E kind \in ServiceErrors \cup LookupErrors :
        LET e == HttpResponseError(kind, store_call[r])
        IN  /\ kind \in LookupErrors =>
                   store_call[r].op = "get_document" /\ Lookup(store_call[r]) = {}
            /\ IF store_call[r].op = "get_document"
               THEN Finish(r, "completed", Returned(DocumentError(e, req[r].id)))
               ELSE Finish(r, "failed", Raised(e))
    /\ UNCHANGED <<env, phase, msal_app, now, req, obo, exchange, store_call, cli, log, AgentVars>>

---------------------------------------------------------------------------
(* Specifications *)

\* The tools and the search service: every tool, every caller, the provider
\* grants the token or refuses consent.
Next ==
    \/ main
    \/ \E r \in Reqs :
        \/ search_documents(r, Calls)
        \/ get_document(r, Calls)
        \/ suggest(r, Calls)
        \/ get_user_info(r, Calls)
        \/ ProviderReturns(r, {Lifetime}, {"ConsentRequired"}, {})
        \/ ResultsReturn(r)
        \/ DocumentReturns(r)
        \/ ServiceRaises(r)

Spec == Init /\ [][Next]_vars

\* The exchange: every answer of the provider.
NextExchange ==
    \/ main
    \/ \E r \in Reqs :
        \/ search_documents(r, ExchangeCalls)
        \/ get_document(r, ExchangeCalls)
        \/ ProviderReturns(r, {Lifetime}, ProviderErrors, {1})
        \/ ProviderRaises(r)
        \/ ResultsReturn(r)
        \/ DocumentReturns(r)
        \/ ServiceRaises(r)

SpecExchange == Init /\ [][NextExchange]_vars

\* The clock: tokens of either lifetime, requests at any time; the search
\* service answers every request.
NextClock ==
    \/ main
    \/ Tick
    \/ \E r \in Reqs :
        \/ search_documents(r, ExchangeCalls)
        \/ get_document(r, ExchangeCalls)
        \/ ProviderReturns(r, Lifetimes, {"ProviderUnavailable"}, {})
        \/ ProviderRaises(r)
        \/ ResultsReturn(r)
        \/ DocumentReturns(r)

SpecClock == Init /\ [][NextClock]_vars

---------------------------------------------------------------------------
(* The command-line front ends *)

\* The client of the server (client/ai_search_mcp_client.py) and the agent
\* (cli.py).  A run is followed from its arguments to its exit: cli.status is
\* the exit status, cli.stdout and cli.stderr what the run has written, and
\* cli.failure the error the run has met ("" while it has met none).

ClientCommands == {"search", "get", "suggest", "list-tools"}

\* The command lines of the client: a command (one of them not among the
\* choices of the parser), with or without --query and --id.
ClientArgv ==
    [command : ClientCommands \cup {"delete"}, query : {"", "alpha"},
     id : {"", "doc1"}, top : {5}]

AgentRequiredVars == {"AZURE_CLIENT_ID", "AZURE_TENANT_ID", "OPENAI_API_KEY"}

\* The command lines of the agent: with or without QUERY and --verbose.
AgentArgv == [args : {<<>>, <<"question">>}, verbose : BOOLEAN]

Run(front, argv, environ) ==
    [front |-> front, argv |-> argv, environ |-> environ, pc |-> "start",
     status |-> -1, stdout |-> <<>>, stderr |-> <<>>, failure |-> ""]

Out(c, line) == [c EXCEPT !.stdout = Append(@, line)]

Err(c, line) == [c EXCEPT !.stderr = Append(@, line)]

Fails(c, failure) == [c EXCEPT !.failure = failure]

\* sys.exit(status), or the end of main() with status 0.
Exit(c, status) == [c EXCEPT !.pc = "exited", !.status = status]

ServerVars ==
    <<env, phase, msal_app, now, req, pc, obo, exchange, store_call, outcome, log>>

InitCli ==
    /\ env = RequiredVars
    /\ phase = "boot"
    /\ msal_app = None
    /\ now = 0
    /\ req = [r \in Reqs |-> None]
    /\ pc = [r \in Reqs |-> "idle"]
    /\ obo = [r \in Reqs |-> None]
    /\ exchange = [r \in Reqs |-> <<>>]
    /\ store_call = [r \in Reqs |-> None]
    /\ outcome = [r \in Reqs |-> None]
    /\ log = [h \in 0..MaxReqs |-> <<>>]
    /\ graph = None
    /\ mcp_client = None
    /\ ingest = None
    /\ legacy = None
    /\ cli \in {Run("client", argv, {}) : argv \in ClientArgv}
               \cup {Run("agent", argv, environ) :
                        argv \in AgentArgv, environ \in SUBSET AgentRequiredVars}

\* parser.error(): the usage message on the error stream, exit status 2.
ParserError(c, message) == Exit(Err(Fails(c, "usage"), message), 2)

\* The client's main() up to asyncio.run: the parser refuses a command that
\* is not among its choices and a command without the option it needs.
client_main ==
    /\ cli # None /\ cli.front = "client" /\ cli.pc = "start"
    /\ cli' =
          IF cli.argv.command \notin ClientCommands
          THEN ParserError(cli, "invalid choice")
          ELSE IF cli.argv.command \in {"search", "suggest"} /\ cli.argv.query = ""
          THEN ParserError(cli, "--query is required")
          ELSE IF cli.argv.command = "get" /\ cli.argv.id = ""
          THEN ParserError(cli, "--id is required")
          ELSE [Out(cli, "Connecting to MCP server") EXCEPT !.pc = "connecting"]
    /\ UNCHANGED <<ServerVars, AgentVars>>

\* run_client(): Client(server_url, auth="oauth") connects, or raises and
\* main() prints the exception and exits with status 1.
run_client ==
    /\ cli # None /\ cli.front = "client" /\ cli.pc = "connecting"
    /\ \/ cli' = [cli EXCEPT !.pc = "connected"]
       \/ cli' = Exit(Out(Fails(cli, "setup"), "Error: connection failed"), 1)
    /\ UNCHANGED <<ServerVars, AgentVars>>

\* The answers of client.call_tool and client.list_tools.
ToolAnswers == {"results", "empty", "raises"}

\* search_documents_command() and suggest_command(): the results or "No
\* ... found." are printed; an exception of call_tool is printed and the
\* function returns.
ListCommand(c, answer, none_found) ==
    IF answer = "raises"
    THEN Exit(Out(Fails(c, "execution"), "Error: call_tool failed"), 0)
    ELSE IF answer = "empty"
    THEN Exit(Out(c, none_found), 0)
    ELSE Exit(Out(c, "Result 1"), 0)

search_documents_command ==
    /\ cli # None /\ cli.front = "client" /\ cli.pc = "connected"
    /\ cli.argv.command = "search"
    /\ \E answer \in ToolAnswers : cli' = ListCommand(cli, answer, "No results found.")
    /\ UNCHANGED <<ServerVars, AgentVars>>

suggest_command ==
    /\ cli # None /\ cli.front = "client" /\ cli.pc = "connected"
    /\ cli.argv.command = "suggest"
    /\ \E answer \in ToolAnswers : cli' = ListCommand(cli, answer, "No suggestions found.")
    /\ UNCHANGED <<ServerVars, AgentVars>>

\* get_document_command(): the document is printed; an error value of the
\* tool and an exception of call_tool are printed and the function returns.
get_document_command ==
    /\ cli # None /\ cli.front = "client" /\ cli.pc = "connected"
    /\ cli.argv.command = "get"
    /\ \E answer \in {"document", "error", "raises"} :
          cli' = IF answer = "raises"
                 THEN Exit(Out(Fails(cli, "execution"), "Error: call_tool failed"), 0)
                 ELSE IF answer = "error"
                 THEN Exit(Out(Fails(cli, "execution"), "Error: tool error"), 0)
                 ELSE Exit(Out(cli, "Document:"), 0)
    /\ UNCHANGED <<ServerVars, AgentVars>>

\* list_tools_command(): the tools are printed; an exception of list_tools
\* is printed and the function returns.
list_tools_command ==
    /\ cli # None /\ cli.front = "client" /\ cli.pc = "connected"
    /\ cli.argv.command = "list-tools"
    /\ \E answer \in {"tools", "raises"} :
          cli' = IF answer = "raises"
                 THEN Exit(Out(Fails(cli, "execution"), "Error: list_tools failed"), 0)
                 ELSE Exit(Out(cli, "Available Tools:"), 0)
    /\ UNCHANGED <<ServerVars, AgentVars>>

\* The agent's main() up to acquire_token: click refuses a command line
\* without QUERY (status 2); a missing variable is reported on the error
\* stream and ends the run with status 1.
cli_main ==
    /\ cli # None /\ cli.front = "agent" /\ cli.pc = "start"
    /\ cli' =
          IF cli.argv.args = <<>>
          THEN ParserError(cli, "Missing argument 'QUERY'")
          ELSE IF AgentRequiredVars \ cli.environ # {}
          THEN Exit(Err(Fails(cli, "setup"),
                        "Error: Missing required environment variables"), 1)
          ELSE [Out(cli, "Acquiring access token...") EXCEPT !.pc = "acquiring"]
    /\ UNCHANGED <<ServerVars, AgentVars>>

\* acquire_token() and get_user_info_from_token(): an exception is reported
\* on the error stream and ends the run with status 1.
acquire_token ==
    /\ cli # None /\ cli.front = "agent" /\ cli.pc = "acquiring"
    /\ \/ cli' = [Out(cli, "Token acquired") EXCEPT !.pc = "running"]
       \/ cli' = Exit(Err(Fails(cli, "setup"), "Token acquisition failed"), 1)
    /\ UNCHANGED <<ServerVars, AgentVars>>

\* run_supervisor(): the response is printed, or the exception (with the
\* traceback under --verbose) is reported on the error stream and the run
\* ends with status 1.
run_supervisor ==
    /\ cli # None /\ cli.front = "agent" /\ cli.pc = "running"
    /\ \/ cli' = Exit(Out(Out(cli, "Response:"), "Query completed successfully"), 0)
       \/ cli' = Exit(IF cli.argv.verbose
                      THEN Err(Err(Fails(cli, "execution"), "Error: run failed"), "Traceback:")
                      ELSE Err(Fails(cli, "execution"), "Error: run failed"), 1)
    /\ UNCHANGED <<ServerVars, AgentVars>>

NextCli ==
    \/ client_main
    \/ run_client
    \/ search_documents_command
    \/ get_document_command
    \/ suggest_command
    \/ list_tools_command
    \/ cli_main
    \/ acquire_token
    \/ run_supervisor

SpecCli == InitCli /\ [][NextCli]_vars

---------------------------------------------------------------------------
(* The module imported, its functions called without main() *)

MsalVars == {"AZURE_CLIENT_ID", "AZURE_TENANT_ID"}

\* The variables the earlier server module reads for its authentication.
LegacyVars == {"JWKS_URI", "AZURE_CLIENT_ID", "AZURE_TENANT_ID"}

\* The globals of the earlier server module: 0 is None, made counts the
\* ConfidentialClientApplication objects constructed.
LegacyModule(environ) ==
    [environ |-> environ, jwt_verifier |-> 0, oauth_proxy |-> 0, msal_app |-> 0,
     made |-> 0, raised |-> ""]

\* initialize_auth() of the earlier server module: JWKS_URI is derived from
\* the tenant when it is not set.
initialize_auth(l) ==
    IF l.jwt_verifier # 0
    THEN l
    ELSE LET JWKS_URI == "JWKS_URI" \in l.environ \/ "AZURE_TENANT_ID" \in l.environ
             verified == IF JWKS_URI
                         THEN [l EXCEPT !.jwt_verifier = 1, !.oauth_proxy = 1]
                         ELSE l
         IN  IF MsalVars \subseteq l.environ
             THEN [verified EXCEPT !.msal_app = l.made + 1, !.made = l.made + 1]
             ELSE verified

InitMsal ==
    /\ env \in {RequiredVars \ unset : unset \in SUBSET MsalVars}
    /\ phase = "boot"
    /\ msal_app = None
    /\ now = 0
    /\ req = [r \in Reqs |-> None]
    /\ pc = [r \in Reqs |-> "idle"]
    /\ obo = [r \in Reqs |-> None]
    /\ exchange = [r \in Reqs |-> <<>>]
    /\ store_call = [r \in Reqs |-> None]
    /\ outcome = [r \in Reqs |-> None]
    /\ cli = None
    /\ log = [h \in 0..MaxReqs |-> <<>>]
    /\ graph = None
    /\ mcp_client = None
    /\ ingest = None
    /\ legacy \in {LegacyModule(environ) : environ \in SUBSET LegacyVars}

\* initialize_msal() called by itself.
InitializeMsal ==
    /\ msal_app' = initialize_msal
    /\ UNCHANGED <<env, phase, now, req, pc, obo, exchange, store_call, outcome, cli, log,
                   AgentVars>>

\* The body of a tool run on the imported module with the token of a user
\* (get_access_token made to return it).
ToolCalled(r) ==
    /\ pc[r] = "idle"
    /\ \A q \in Reqs : q < r => pc[q] # "idle"
    /\ \E call \in ExchangeCalls : Start(r, call)

\* initialize_auth() of the earlier server module called by itself.
LegacyInitializeAuth ==
    /\ legacy' = initialize_auth(legacy)
    /\ UNCHANGED <<ServerVars, cli, graph, mcp_client, ingest>>

\* get_obo_token() of the earlier server module up to its request to the
\* provider.
LegacyGetOboToken ==
    /\ legacy' = [initialize_auth(legacy) EXCEPT !.raised =
                      IF initialize_auth(legacy).msal_app = 0
                      THEN "MSAL app not initialized. Check AZURE_CLIENT_ID and AZURE_TENANT_ID."
                      ELSE ""]
    /\ UNCHANGED <<ServerVars, cli, graph, mcp_client, ingest>>

NextMsal ==
    \/ InitializeMsal
    \/ LegacyInitializeAuth
    \/ LegacyGetOboToken
    \/ \E r \in Reqs :
        \/ ToolCalled(r)
        \/ ProviderReturns(r, {Lifetime}, {"ConsentRequired"}, {})

SpecMsal == InitMsal /\ [][NextMsal]_vars

---------------------------------------------------------------------------
(* The client wrapper AuthenticatedMCPClient *)

MaxOps == 4

\* The result of the last method called on the wrapper: reached is the
\* underlying Client the call was passed to, 0 when it was passed to none.
Last(op, result, reached) == [op |-> op, result |-> result, reached |-> reached]

\* AuthenticatedMCPClient(base_url, access_token): _client and _transport
\* are 0 for None and else the number of the object. The other fields are
\* the underlying objects: how many were constructed, which Clients are
\* open, for which __aenter__ raised, on which __aexit__ was called; and the
\* history: whether connect was called since the last disconnect, the number
\* of calls so far, the last call.
AuthenticatedMCPClient(base_url, access_token) ==
    [base_url |-> base_url, access_token |-> access_token,
     _client |-> 0, _transport |-> 0,
     clients |-> 0, transports |-> 0,
     opened |-> {}, failed |-> {}, exited |-> {},
     between |-> FALSE, ops |-> 0,
     last |-> Last("__init__", "returned", 0)]

\* connect(): opens tells whether __aenter__ of the new Client returns or
\* raises.
connect(c, opens) ==
    IF c._client # 0
    THEN [c EXCEPT !.between = TRUE, !.last = Last("connect", "returned", 0)]
    ELSE LET k == c.clients + 1
             t == c.transports + 1
             made == [c EXCEPT !._transport = t, !.transports = t,
                               !._client = k, !.clients = k, !.between = TRUE]
         IN  IF opens
             THEN [made EXCEPT !.opened = @ \cup {k},
                               !.last = Last("connect", "returned", k)]
             ELSE [made EXCEPT !.failed = @ \cup {k},
                               !.last = Last("connect", "raised", k)]

\* disconnect(): __aexit__ of the Client closes it and returns.
disconnect(c) ==
    IF c._client # 0
    THEN [c EXCEPT !.opened = @ \ {c._client}, !.exited = @ \cup {c._client},
                   !._client = 0, !._transport = 0,
                   !.between = FALSE, !.last = Last("disconnect", "returned", c._client)]
    ELSE [c EXCEPT !.between = FALSE, !.last = Last("disconnect", "returned", 0)]

\* What a method of the underlying Client does: a Client that is open
\* answers or raises the error of the tool, one that is not open raises.
Delegated(c, op, answer) ==
    [c EXCEPT !.last = Last(op, IF c._client \in c.opened THEN answer ELSE "raised",
                            c._client)]

\* A fault: the call is passed on whether or not there is a Client.
call_tool_unchecked(c, answer) == Delegated(c, "call_tool", answer)

\* call_tool(), and search_documents, get_document, suggest through it.
call_tool(c, answer) ==
    IF c._client = 0
    THEN [c EXCEPT !.last = Last("call_tool", "RuntimeError", 0)]
    ELSE Delegated(c, "call_tool", answer)

list_tools(c, answer) ==
    IF c._client = 0
    THEN [c EXCEPT !.last = Last("list_tools", "RuntimeError", 0)]
    ELSE Delegated(c, "list_tools", answer)

Answers == {"returned", "raised"}

InitWrapper ==
    /\ env = RequiredVars
    /\ phase = "boot"
    /\ msal_app = None
    /\ now = 0
    /\ req = [r \in Reqs |-> None]
    /\ pc = [r \in Reqs |-> "idle"]
    /\ obo = [r \in Reqs |-> None]
    /\ exchange = [r \in Reqs |-> <<>>]
    /\ store_call = [r \in Reqs |-> None]
    /\ outcome = [r \in Reqs |-> None]
    /\ cli = None
    /\ log = [h \in 0..MaxReqs |-> <<>>]
    /\ graph = None
    /\ ingest = None
    /\ legacy = None
    /\ mcp_client \in {AuthenticatedMCPClient("http://localhost:8000", AccessToken(u).token) :
                          u \in Users}

Connect ==
    /\ mcp_client.ops < MaxOps
    /\ \E opens \in BOOLEAN : mcp_client' = [connect(mcp_client, opens) EXCEPT !.ops = @ + 1]
    /\ UNCHANGED <<ServerVars, cli, graph, ingest, legacy>>

Disconnect ==
    /\ mcp_client.ops < MaxOps
    /\ mcp_client' = [disconnect(mcp_client) EXCEPT !.ops = @ + 1]
    /\ UNCHANGED <<ServerVars, cli, graph, ingest, legacy>>

ListTools ==
    /\ mcp_client.ops < MaxOps
    /\ \E answer \in Answers : mcp_client' = [list_tools(mcp_client, answer) EXCEPT !.ops = @ + 1]
    /\ UNCHANGED <<ServerVars, cli, graph, ingest, legacy>>

CallTool ==
    /\ mcp_client.ops < MaxOps
    /\ \E answer \in Answers : mcp_client' = [call_tool(mcp_client, answer) EXCEPT !.ops = @ + 1]
    /\ UNCHANGED <<ServerVars, cli, graph, ingest, legacy>>

NextWrapper ==
    \/ Connect
    \/ Disconnect
    \/ ListTools
    \/ CallTool

SpecWrapper == InitWrapper /\ [][NextWrapper]_vars

---------------------------------------------------------------------------
(* The supervisor graph and the agent node *)

\* IdentityContext: a missing login is "", a missing token is None.
IdentityContext(user_login, access_token, oid) ==
    [user_login |-> user_login, access_token |-> access_token, oid |-> oid]

\* The identity contexts of the model: none, without a token, with the token
\* of a user.
Identities ==
    {None} \cup {IdentityContext(login, token, u) :
                    u \in Users, login \in {"", "user@example.com"},
                    token \in {None, AccessToken("U1").token, AccessToken("U2").token}}

\* AgentState as run_supervisor builds it.
initial_state(query, identity, mcp_base_url) ==
    [messages |-> <<>>, identity |-> identity, query |-> query,
     mcp_base_url |-> mcp_base_url]

ValueError(message) == [type |-> "ValueError", message |-> message]

NoError == [type |-> "", message |-> ""]

\* A fault: the base URL is not looked at.
validate_identity_lenient(state) ==
    IF state.identity = None
    THEN Raised(ValueError("Identity context is missing"))
    ELSE IF state.identity.access_token = None
    THEN Raised(ValueError("Access token is missing from identity context"))
    ELSE Returned(state)

validate_identity(state) ==
    IF state.identity = None
    THEN Raised(ValueError("Identity context is missing"))
    ELSE IF state.identity.access_token = None
    THEN Raised(ValueError("Access token is missing from identity context"))
    ELSE IF state.mcp_base_url = ""
    THEN Raised(ValueError("MCP base URL is missing"))
    ELSE Returned(state)

\* The compiled graph while ainvoke runs it: the node it is at, the nodes it
\* has run, where run_react_agent stands, the exception on its way out, how
\* often disconnect was called.
Graph(state) ==
    [state |-> state, node |-> "validate_identity", visited |-> <<>>,
     step |-> "", pending |-> NoError, raised |-> NoError, disconnects |-> 0]

\* add_edge: the node after a node that has returned.
Edge(node) ==
    IF node = "validate_identity" THEN "run_agent" ELSE "END"

Visit(g, node) == [g EXCEPT !.visited = Append(@, node)]

\* An exception leaves ainvoke.
Propagates(g, e) == [g EXCEPT !.node = "raised", !.raised = e]

\* A fault: the client is disconnected after a run that returned only.
Finally_returned(c, pending) ==
    IF pending = NoError THEN disconnect(c) ELSE c

\* finally: await mcp_client.disconnect()
Finally(c, pending) == disconnect(c)

InitAgent ==
    /\ env = RequiredVars
    /\ phase = "boot"
    /\ msal_app = None
    /\ now = 0
    /\ req = [r \in Reqs |-> None]
    /\ pc = [r \in Reqs |-> "idle"]
    /\ obo = [r \in Reqs |-> None]
    /\ exchange = [r \in Reqs |-> <<>>]
    /\ store_call = [r \in Reqs |-> None]
    /\ outcome = [r \in Reqs |-> None]
    /\ cli = None
    /\ log = [h \in 0..MaxReqs |-> <<>>]
    /\ mcp_client = None
    /\ ingest = None
    /\ legacy = None
    /\ graph \in {Graph(initial_state(query, identity, url)) :
                     query \in {"alpha", "beta"},
                     identity \in Identities,
                     url \in {"", "http://localhost:8000"}}

\* The node validate_identity.
ValidateIdentity ==
    /\ graph.node = "validate_identity"
    /\ LET result == validate_identity(graph.state)
           g == Visit(graph, "validate_identity")
       IN  graph' = IF result.kind = "raise"
                    THEN Propagates(g, result.exc)
                    ELSE [g EXCEPT !.node = Edge("validate_identity")]
    /\ UNCHANGED <<ServerVars, cli, mcp_client, ingest, legacy>>

\* The node run_agent: run_react_agent constructs the client.
RunAgent ==
    /\ graph.node = "run_agent" /\ graph.step = ""
    /\ mcp_client' = AuthenticatedMCPClient(graph.state.mcp_base_url,
                                            graph.state.identity.access_token)
    /\ graph' = [Visit(graph, "run_agent") EXCEPT !.step = "connect"]
    /\ UNCHANGED <<ServerVars, cli, ingest, legacy>>

\* try: await mcp_client.connect()
AgentConnects ==
    /\ graph.step = "connect"
    /\ \E opens \in BOOLEAN :
        /\ mcp_client' = connect(mcp_client, opens)
        /\ graph' = IF opens
                    THEN [graph EXCEPT !.step = "create"]
                    ELSE [graph EXCEPT !.step = "finally",
                                       !.pending = [type |-> "ConnectError", message |-> ""]]
    /\ UNCHANGED <<ServerVars, cli, ingest, legacy>>

\* create_react_agent_executor returns the agent or raises.
AgentCreated ==
    /\ graph.step = "create"
    /\ \E made \in BOOLEAN :
        graph' = IF made
                 THEN [graph EXCEPT !.step = "ainvoke"]
                 ELSE [graph EXCEPT !.step = "finally",
                                    !.pending = [type |-> "OpenAIError", message |-> ""]]
    /\ UNCHANGED <<ServerVars, cli, mcp_client, ingest, legacy>>

\* agent.ainvoke: the agent calls a tool through the client, and returns its
\* messages or raises.
AgentInvoked ==
    /\ graph.step = "ainvoke"
    /\ \E answer \in Answers, returns \in BOOLEAN :
        /\ mcp_client' = call_tool(mcp_client, answer)
        /\ graph' = IF returns
                    THEN [graph EXCEPT !.step = "finally",
                                       !.state.messages = @ \o <<graph.state.query, answer>>]
                    ELSE [graph EXCEPT !.step = "finally",
                                       !.pending = [type |-> "AgentError", message |-> ""]]
    /\ UNCHANGED <<ServerVars, cli, ingest, legacy>>

\* The finally block, and run_react_agent returns or raises.
AgentLeaves ==
    /\ graph.step = "finally"
    /\ mcp_client' = Finally(mcp_client, graph.pending)
    /\ LET g == [graph EXCEPT !.step = "left", !.disconnects = @ + 1]
       IN  graph' = IF graph.pending = NoError
                    THEN [g EXCEPT !.node = Edge("run_agent")]
                    ELSE Propagates(g, graph.pending)
    /\ UNCHANGED <<ServerVars, cli, ingest, legacy>>

NextAgent ==
    \/ ValidateIdentity
    \/ RunAgent
    \/ AgentConnects
    \/ AgentCreated
    \/ AgentInvoked
    \/ AgentLeaves

SpecAgent == InitAgent /\ [][NextAgent]_vars

---------------------------------------------------------------------------
(* The ingestion script: the sample documents and the ids added to them *)

MaxList == 2

\* str.strip() on the values the two variables take in the model.
strip(v) ==
    IF v = " " THEN ""
    ELSE IF v = " U1 " THEN "U1"
    ELSE v

\* The values of AI_SEARCH_QUERY_USER_ID: not set, blank, a user that some
\* documents name (padded), a user no document names.
QueryUserIds == {"", " ", " U1 ", "U9"}

QueryGroupIds == {"", "G1", "G9"}

\* A document of sample_documents.json.
SampleDocument(id, oid, group) ==
    [id |-> id, oid |-> oid, group |-> group, content |-> "alpha"]

\* The contents of sample_documents.json: the first document with every oid
\* list of at most MaxList entries.
SampleFiles ==
    {<< SampleDocument("doc1", oid, group), SampleDocument("doc2", other, <<>>) >> :
        oid \in UNION {[1..k -> Users] : k \in 0..MaxList},
        group \in {<<>>, <<"G1">>},
        other \in {<<>>, <<"U2">>}}

\* A fault: the id is appended whether or not the list has it.
Inject_always(list, id) == Append(list, id)

\* if id not in list: list.append(id)
Inject(list, id) == IF id \in Range(list) THEN list ELSE Append(list, id)

RECURSIVE InjectAll(_, _)
\* for id in ids: inject it.
InjectAll(list, ids) ==
    IF ids = <<>> THEN list
    ELSE InjectAll(Inject(list, Head(ids)), Tail(ids))

\* The extra ids of a variable: the value when it is not empty.
Extra(value) == IF value # "" THEN <<value>> ELSE <<>>

\* get_sample_documents() for the documents of the file and the values of
\* the two variables.
get_sample_documents(documents, user_id, group_id) ==
    [i \in DOMAIN documents |->
        [documents[i] EXCEPT !.oid = InjectAll(@, Extra(user_id)),
                             !.group = InjectAll(@, Extra(group_id))]]

InitIngest ==
    /\ env = RequiredVars
    /\ phase = "boot"
    /\ msal_app = None
    /\ now = 0
    /\ req = [r \in Reqs |-> None]
    /\ pc = [r \in Reqs |-> "idle"]
    /\ obo = [r \in Reqs |-> None]
    /\ exchange = [r \in Reqs |-> <<>>]
    /\ store_call = [r \in Reqs |-> None]
    /\ outcome = [r \in Reqs |-> None]
    /\ cli = None
    /\ log = [h \in 0..MaxReqs |-> <<>>]
    /\ graph = None
    /\ mcp_client = None
    /\ legacy = None
    /\ ingest \in {[AI_SEARCH_QUERY_USER_ID |-> strip(user_id),
                    AI_SEARCH_QUERY_GROUP_ID |-> strip(group_id),
                    file |-> file, sampled |-> <<>>, documents |-> <<>>,
                    current_user_oid |-> "", current_user_groups |-> <<>>,
                    pc |-> "main"] :
                      user_id \in QueryUserIds, group_id \in QueryGroupIds,
                      file \in SampleFiles}

\* _async_main up to get_sample_documents(): the signed-in user and their
\* groups from Graph, or none when Graph cannot be asked.
GetCurrentUserInfo ==
    /\ ingest.pc = "main"
    /\ \E u \in Users \cup {""} :
        ingest' = [ingest EXCEPT !.current_user_oid = u,
                                 !.current_user_groups =
                                     IF u = "U2" THEN <<"G1">> ELSE <<>>,
                                 !.pc = "user"]
    /\ UNCHANGED <<ServerVars, cli, graph, mcp_client, legacy>>

\* documents = get_sample_documents()
GetSampleDocuments ==
    /\ ingest.pc = "user"
    /\ LET documents == get_sample_documents(ingest.file, ingest.AI_SEARCH_QUERY_USER_ID,
                                             ingest.AI_SEARCH_QUERY_GROUP_ID)
       IN  ingest' = [ingest EXCEPT !.sampled = documents, !.documents = documents,
                                    !.pc = "sampled"]
    /\ UNCHANGED <<ServerVars, cli, graph, mcp_client, legacy>>

\* _async_main adds the signed-in user and their groups to every document.
InjectCurrentUser ==
    /\ ingest.pc = "sampled"
    /\ ingest' = [ingest EXCEPT
            !.documents = [i \in DOMAIN @ |->
                [@[i] EXCEPT !.oid = InjectAll(@, Extra(ingest.current_user_oid)),
                             !.group = InjectAll(@, ingest.current_user_groups)]],
            !.pc = "injected"]
    /\ UNCHANGED <<ServerVars, cli, graph, mcp_client, legacy>>

NextIngest ==
    \/ GetCurrentUserInfo
    \/ GetSampleDocuments
    \/ InjectCurrentUser

SpecIngest == InitIngest /\ [][NextIngest]_vars

---------------------------------------------------------------------------
(* Properties *)

IsDocument(v) == "id" \in DOMAIN v /\ "error" \notin DOMAIN v

\* The documents in what handler r returned.
ReturnedDocs(r) ==
    IF outcome[r] = None \/ outcome[r].kind # "return" THEN {}
    ELSE IF req[r].op \in {"search_documents", "suggest"}
         THEN {d \in Range(outcome[r].value.list) : IsDocument(d)}
    ELSE IF req[r].op = "get_document" /\ IsDocument(outcome[r].value)
         THEN {outcome[r].value}
    ELSE {}

IndexDocument(id) == CHOOSE d \in Range(Index) : d["id"] = id

Authorized(u, d) ==
    \/ u \in Range(d["oid"])
    \/ GroupsOf(u) \cap Range(d["group"]) # {}

\* The tokens the provider has granted.
Granted(r) ==
    {exchange[r][i].result["access_token"] :
        i \in {j \in DOMAIN exchange[r] :
                  "access_token" \in DOMAIN exchange[r][j].result}}

\* C1: every document a tool returns to a caller is a document of the index
\* that lists the caller among its authorized subjects or one of the caller's
\* groups among its authorized groups; doc1, authorized for U1 alone, is
\* returned to no request of U2, and get_document("doc1") of U1 returns doc1
\* when the service answers it.
C1_ReturnedDocumentsAuthorized ==
    \A r \in Reqs :
        /\ \A d \in ReturnedDocs(r) :
              /\ d["id"] \in DocIds
              /\ Authorized(req[r].caller, IndexDocument(d["id"]))
        /\ \A d \in ReturnedDocs(r) : req[r].caller = "U2" => d["id"] # "doc1"
        /\ (/\ pc[r] = "completed"
            /\ req[r].op = "get_document"
            /\ req[r].caller = "U1"
            /\ req[r].id = "doc1"
            /\ "error" \notin DOMAIN outcome[r].value)
           => outcome[r].value = Project(IndexDocument("doc1"))

C1_Witness ==
    \E r, q \in Reqs :
        /\ req[r] # None /\ req[r].caller = "U1" /\ req[r].op = "get_document"
        /\ ReturnedDocs(r) = {Project(IndexDocument("doc1"))}
        /\ req[q] # None /\ req[q].caller = "U2" /\ req[q].op = "get_document"
        /\ req[q].id = "doc1" /\ pc[q] = "completed" /\ ReturnedDocs(q) = {}

\* C2: every request sent to the search service carries in
\* x_ms_query_source_authorization a token the provider granted in the
\* exchange of the handler that sends it.
C2_StoreCallsCarryOboToken ==
    \A r \in Reqs :
        store_call[r] # None =>
            /\ store_call[r].x_ms_query_source_authorization # None
            /\ store_call[r].x_ms_query_source_authorization \in Granted(r)

C2_Witness ==
    \E r, q \in Reqs :
        /\ store_call[r] # None /\ store_call[r].op = "search_documents"
        /\ store_call[q] # None /\ store_call[q].op = "get_document"

\* The credentials that give their holder unrestricted access to the index.
Unrestricted == {[key |-> "AZURE_SEARCH_ADMIN_KEY"]}

\* C3 as stated: no request to the search service is made with a credential
\* that gives unrestricted access.
C3_NoUnrestrictedCredential ==
    \A r \in Reqs :
        store_call[r] # None => store_call[r].credential \notin Unrestricted

\* C3 amended: every request to the search service is made with the admin key
\* of the service as its credential and carries the token granted for the
\* caller of the request, the only part of the request that depends on the
\* caller's identity.
C3_AdminKeyPlusCallerToken ==
    \A r \in Reqs :
        store_call[r] # None =>
            /\ store_call[r].credential = [key |-> "AZURE_SEARCH_ADMIN_KEY"]
            /\ store_call[r].x_ms_query_source_authorization \in Granted(r)
            /\ store_call[r].x_ms_query_source_authorization.oid = req[r].caller

C3_Witness ==
    \E r, q \in Reqs :
        /\ store_call[r] # None /\ store_call[q] # None
        /\ req[r].caller # req[q].caller
        /\ store_call[r].credential = store_call[q].credential

\* C4 as stated: a tool called without a token returns the dict
\* {"error": "Not authenticated"}.
C4_NotAuthenticatedDict ==
    \A r \in Reqs :
        (req[r] # None /\ req[r].caller = NoCaller) =>
            outcome[r] = Returned([error |-> "Not authenticated"])

\* C4 amended: called without a token, get_document and get_user_info return
\* the dict {"error": "Not authenticated"}, search_documents and suggest
\* return the list holding that dict as its one element; no tool then sends
\* a request to the provider or to the search service.
C4_NotAuthenticatedByTool ==
    \A r \in Reqs :
        (req[r] # None /\ req[r].caller = NoCaller) =>
            /\ pc[r] = "completed"
            /\ exchange[r] = <<>> /\ store_call[r] = None
            /\ req[r].op \in {"get_document", "get_user_info"} =>
                   outcome[r] = Returned([error |-> "Not authenticated"])
            /\ req[r].op \in {"search_documents", "suggest"} =>
                   outcome[r] = Returned(List(<<[error |-> "Not authenticated"]>>))

C4_Witness ==
    \E r, q \in Reqs :
        /\ req[r] # None /\ req[r].caller = NoCaller /\ req[r].op = "suggest"
        /\ req[q] # None /\ req[q].caller = NoCaller /\ req[q].op = "get_user_info"

\* The requests that need a token of the search service.
NeedsToken(r) ==
    /\ req[r] # None
    /\ req[r].caller \in Users
    /\ req[r].op # "get_user_info"

\* Every exchange asks for the one scope-set and the tenant is the server's
\* own: two requests share their exchange key when their subject is the same.
SameKey(r, q) == r # q /\ NeedsToken(r) /\ NeedsToken(q) /\ req[r].caller = req[q].caller

HasToken(result) == "access_token" \in DOMAIN result

ArrivedWhileLive(r, q) ==
    /\ SameKey(r, q)
    /\ obo[r] # None
    /\ store_call[r].time < req[q].at
    /\ obo[r].exp - req[q].at > SafetyMargin

C7_AttachedTokenLive ==
    \A r \in Reqs :
        /\ store_call[r] # None =>
              /\ store_call[r].x_ms_query_source_authorization # None
              /\ store_call[r].x_ms_query_source_authorization.exp
                     - store_call[r].time > SafetyMargin
        /\ (NeedsToken(r) /\ pc[r] # "exchanging") => Len(exchange[r]) = 1

C7_Witness ==
    \E r, q \in Reqs :
        /\ SameKey(r, q)
        /\ obo[r] # None /\ store_call[q] # None
        /\ store_call[r].time < req[q].at
        /\ obo[r].exp - req[q].at <= SafetyMargin

\* Request q arrived after the exchange of r had failed.
ArrivedAfterFailure(r, q) ==
    /\ SameKey(r, q)
    /\ pc[r] = "failed"
    /\ exchange[r] # <<>>
    /\ exchange[r][1].answered < req[q].at

\* C8: a request that arrives after the exchange of a request with the same
\* key has failed or timed out asks the provider again, and when the provider
\* grants a token the request goes on with it to the search service.
C8_FailureNotRemembered ==
    \A r, q \in Reqs :
        ArrivedAfterFailure(r, q) =>
            /\ msal_app # None
            /\ Len(exchange[q]) = 1
            /\ HasToken(exchange[q][1].result) =>
                   /\ pc[q] \in {"executing", "completed"}
                   /\ obo[q] = exchange[q][1].result["access_token"]
                   /\ store_call[q].x_ms_query_source_authorization = obo[q]

C8_Witness ==
    \E r, q \in Reqs :
        /\ ArrivedAfterFailure(r, q)
        /\ outcome[r] = Raised(<<"Timeout">>)
        /\ pc[q] = "completed" /\ ReturnedDocs(q) # {}

Unavailable(result) == Get(result, "error", "") = "ProviderUnavailable"

Terminal == {"ConsentRequired", "InvalidAssertion"}

\* C10: when the provider answers ConsentRequired or InvalidAssertion the
\* request ends with the exception of the exchange that names that error, the
\* exceptions of the two differ, and the provider has been asked once.
C10_TerminalErrorsNamedOnce ==
    \A r \in Reqs :
        (exchange[r] # <<>> /\ Get(exchange[r][1].result, "error", "") \in Terminal) =>
            /\ pc[r] = "failed"
            /\ Len(exchange[r]) = 1
            /\ outcome[r].kind = "raise"
            /\ Len(outcome[r].exc) = 3
            /\ outcome[r].exc[1] = "OBO token acquisition failed"
            /\ outcome[r].exc[2] = exchange[r][1].result["error"]
            /\ \A q \in Reqs :
                  (exchange[q] # <<>>
                   /\ Get(exchange[q][1].result, "error", "") \in Terminal
                   /\ exchange[q][1].result["error"] # exchange[r][1].result["error"])
                  => outcome[q] # outcome[r]

C10_Witness ==
    \E r, q \in Reqs :
        /\ exchange[r] # <<>> /\ exchange[q] # <<>>
        /\ Get(exchange[r][1].result, "error", "") = "ConsentRequired"
        /\ Get(exchange[q][1].result, "error", "") = "InvalidAssertion"
        /\ pc[r] = "failed" /\ pc[q] = "failed"

\* C11 as stated: the result-count bound in a search or suggest request to the
\* search service is at most 100, whatever top the caller passed.
C11_TopAtMost100 ==
    \A r \in Reqs :
        (store_call[r] # None /\ store_call[r].op \in {"search_documents", "suggest"})
            => store_call[r].top <= 100

LookupFailed(r) ==
    /\ pc[r] = "completed"
    /\ req[r].op = "get_document"
    /\ store_call[r] # None
    /\ Lookup(store_call[r]) = {}

\* The exceptions the search service can answer the request of r with.
StoreErrors(r) ==
    {HttpResponseError(k, store_call[r]) : k \in ServiceErrors \cup LookupErrors}

ExchangeRefused(r) ==
    /\ pc[r] = "failed"
    /\ store_call[r] = None
    /\ exchange[r] # <<>>
    /\ "error" \in DOMAIN exchange[r][1].result

\* The search service failed the search or suggest request of r.
SearchFailed(r) == pc[r] = "failed" /\ store_call[r] # None

\* get_document of r returned an error value for an exception of the service.
DocumentFailed(r) ==
    /\ pc[r] = "completed"
    /\ req[r].op = "get_document"
    /\ store_call[r] # None
    /\ "error" \in DOMAIN outcome[r].value

C15_NoTokenInOutcome ==
    \A r \in Reqs :
        outcome[r] # None =>
            IF outcome[r].kind = "raise"
            THEN IF store_call[r] # None
                 THEN DOMAIN outcome[r].exc = {"type", "op", "key"}
                 ELSE /\ exchange[r] # <<>>
                      /\ ~HasToken(exchange[r][1].result)
                      /\ \A i \in DOMAIN outcome[r].exc : i <= 3
            ELSE IF req[r].caller = NoCaller
            THEN outcome[r].value = NotAuthenticated(req[r].op)
            ELSE IF req[r].op = "get_user_info"
            THEN outcome[r].value = UserInfo(AccessToken(req[r].caller))
            ELSE IF req[r].op = "get_document"
            THEN /\ DOMAIN outcome[r].value \subseteq IndexFields \cup {"error", "id"}
                 /\ IsDocument(outcome[r].value) =>
                        outcome[r].value = IndexDocument(req[r].id)
                 /\ "error" \in DOMAIN outcome[r].value =>
                        DOMAIN outcome[r].value.error = {"type", "op", "key"}
            ELSE \A i \in DOMAIN outcome[r].value.list :
                    LET d == outcome[r].value.list[i]
                    IN  /\ DOMAIN d \subseteq IndexFields
                        /\ \A k \in DOMAIN d : d[k] = IndexDocument(d["id"])[k]

C15_Witness ==
    \E r, q \in Reqs :
        /\ obo[r] # None /\ pc[r] = "completed" /\ ReturnedDocs(r) # {}
        /\ obo[q] # None /\ req[q].op = "get_document"
        /\ pc[q] = "completed" /\ ReturnedDocs(q) = {}

\* The steps handler r may take: from idle (no token obtained yet) through
\* get_access_token to the exchange, from the exchange to the request to the
\* search service, from there to the end; a handler that has ended stays as
\* it is.
CallOrder(r) ==
    /\ pc[r] = "idle" => pc'[r] \in {"idle", "exchanging", "completed", "failed"}
    /\ pc[r] = "exchanging" => pc'[r] \in {"exchanging", "executing", "failed"}
    /\ pc[r] = "executing" => pc'[r] \in {"executing", "completed", "failed"}
    /\ pc[r] \in {"completed", "failed"} =>
          /\ pc'[r] = pc[r]
          /\ outcome'[r] = outcome[r]
          /\ exchange'[r] = exchange[r]
          /\ store_call'[r] = store_call[r]

\* The provider is asked in the step in which the handler has obtained the
\* token of its request, and is given that token.
ExchangeAfterToken(r) ==
    exchange'[r] # exchange[r] /\ exchange[r] = <<>> =>
        /\ pc[r] = "idle" /\ pc'[r] = "exchanging"
        /\ get_access_token(req'[r].caller) # None
        /\ exchange'[r][1].user_assertion = get_access_token(req'[r].caller).token

\* The request to the search service is sent in the step in which the
\* provider grants the token, and at no other.
StoreAfterExchange(r) ==
    /\ store_call'[r] # store_call[r] =>
          /\ pc[r] = "exchanging" /\ pc'[r] = "executing"
          /\ store_call[r] = None
          /\ HasToken(exchange'[r][1].result)
    /\ pc'[r] = "executing" => HasToken(exchange'[r][1].result)

\* C16: a handler moves from idle through the exchange and the request to the
\* search service to its end in that order; the provider is asked only once
\* the token of the request has been obtained, the search service only once
\* the provider has granted the token, and a handler that has failed (or
\* completed) takes no further step.
C16_CallOrder ==
    [][\A r \in Reqs : CallOrder(r) /\ ExchangeAfterToken(r) /\ StoreAfterExchange(r)]_vars

C16_Witness ==
    \E r, q \in Reqs :
        /\ pc[r] = "completed" /\ store_call[r] # None
        /\ pc[q] = "failed" /\ exchange[q] # <<>> /\ store_call[q] = None

C18_StoreTokenIsOwn ==
    \A r \in Reqs :
        /\ store_call[r] # None =>
              LET t == store_call[r].x_ms_query_source_authorization
              IN  /\ t = exchange[r][Len(exchange[r])].result["access_token"]
                  /\ t.jti = <<r, Len(exchange[r])>>
                  /\ t.oid = exchange[r][Len(exchange[r])].user_assertion.oid
                  /\ t.oid = req[r].caller
                  /\ \A q \in Reqs \ {r} : obo[q] # t
        /\ msal_app # None => DOMAIN msal_app = {"client_id", "authority", "client_credential", "instance"}

C18_Witness ==
    \E r, q \in Reqs :
        /\ r < q /\ req[r] # None /\ req[q] # None
        /\ req[r].caller # req[q].caller
        /\ pc[r] = "exchanging" /\ pc[q] = "executing"

\* C19: the server serves only when every required variable is set and the
\* MSAL application has been built; with a variable missing main() ends
\* before any request is taken, and no request fails before the provider
\* has been asked.
C19_MissingConfigFatalAtStartup ==
    /\ phase = "serving" => RequiredVars \subseteq env /\ msal_app # None
    /\ RequiredVars \ env # {} => phase \in {"boot", "fatal"}
    /\ phase # "serving" => \A r \in Reqs : req[r] = None /\ pc[r] = "idle"
    /\ \A r \in Reqs : pc[r] = "failed" => exchange[r] # <<>>

C19_Witness ==
    /\ phase = "fatal"
    /\ RequiredVars \ env = {"AZURE_CLIENT_ID"}

\* C20 as stated: a run that met no error exits with status 0; a run that met
\* an error in its setup or in the execution of its command exits with status
\* 1 and has written the error to the error stream (an error in the command
\* line itself, which the parser answers, is left aside).
C20_ExitStatusAndErrorStream ==
    (cli # None /\ cli.pc = "exited") =>
        /\ cli.failure = "" => cli.status = 0
        /\ cli.failure \in {"setup", "execution"} =>
              /\ cli.status = 1
              /\ cli.stderr # <<>>

\* C21: two search_documents calls with the same token, query and top return
\* the same documents, and the requests the server sent to the search
\* service for them differ in nothing but the token granted for each.
C21_SearchIdempotent ==
    \A r, q \in Reqs :
        (/\ r # q
         /\ pc[r] = "completed" /\ pc[q] = "completed"
         /\ req[r].op = "search_documents" /\ req[q].op = "search_documents"
         /\ req[r].caller \in Users /\ req[r].caller = req[q].caller
         /\ req[r].query = req[q].query /\ req[r].top = req[q].top) =>
            /\ outcome[r] = outcome[q]
            /\ [store_call[r] EXCEPT !.x_ms_query_source_authorization = None, !.time = 0]
                 = [store_call[q] EXCEPT !.x_ms_query_source_authorization = None, !.time = 0]

C21_Witness ==
    /\ pc = [r \in Reqs |-> IF r <= 2 THEN "completed" ELSE pc[r]]
    /\ req[1].op = "search_documents" /\ req[2].op = "search_documents"
    /\ req[1].caller = "U1" /\ req[2].caller = "U1"
    /\ req[1].top = 1 /\ req[2].top = 1
    /\ ReturnedDocs(1) # {} /\ ReturnedDocs(2) # {}

\* C22: the list search_documents or suggest returns has one element for each
\* result of the search service, in the order of the results, and each
\* element is the result without its keys that start with "@".
C22_ReturnsStoreResults ==
    \A r \in Reqs :
        (/\ pc[r] = "completed" /\ store_call[r] # None
         /\ req[r].op \in {"search_documents", "suggest"}) =>
            LET docs == outcome[r].value.list
                results == IF store_call[r].op = "suggest"
                           THEN SuggestResults(store_call[r])
                           ELSE SearchResults(store_call[r])
            IN  /\ Len(docs) = Len(results)
                /\ \A i \in DOMAIN docs :
                      /\ DOMAIN docs[i] = DOMAIN results[i] \ AtKeys
                      /\ \A k \in DOMAIN docs[i] : docs[i][k] = results[i][k]

C22_Witness ==
    \E r \in Reqs :
        /\ pc[r] = "completed" /\ store_call[r] # None
        /\ req[r].op = "search_documents"
        /\ Len(outcome[r].value.list) = 2
        /\ outcome[r].value.list[1]["id"] = "doc2"
        /\ outcome[r].value.list[2]["id"] = "doc3"

\* C23: no record of the log holds a token: a record about a token gives one
\* claim of it, the claims logged of the inbound token and of the granted
\* token are not all of its claims, and the answer of the provider is logged
\* in full only when it holds no token.
C23_NoTokenInLog ==
    \A h \in DOMAIN log :
        LET ClaimsLogged(about) ==
                {log[h][i].line : i \in {j \in DOMAIN log[h] : log[h][j].about = about}}
        IN  /\ \A i \in DOMAIN log[h] :
                  /\ log[h][i].about # "" =>
                        log[h][i].line \in {"iss", "aud", "oid", "scp", "azp"}
                  /\ log[h][i].line = "Full result" =>
                        DOMAIN log[h][i].value \cap {"access_token", "sig"} = {}
                  /\ log[h][i].line \notin {"token", "access_token", "user_assertion"}
            /\ (h \in Reqs /\ exchange[h] # <<>>) =>
                  /\ \E k \in DOMAIN decode_jwt_payload(exchange[h][1].user_assertion) :
                        k \notin ClaimsLogged("user")
                  /\ HasToken(exchange[h][1].result) =>
                        \E k \in DOMAIN decode_jwt_payload(exchange[h][1].result["access_token"]) :
                            k \notin ClaimsLogged("obo")

C23_Witness ==
    \E r, q \in Reqs :
        /\ \E i \in DOMAIN log[r] : log[r][i].about = "obo" /\ log[r][i].line = "oid"
        /\ \E i \in DOMAIN log[q] : log[q][i].line = "Full result"

\* C29: a failed exchange leaves search_documents, get_document and suggest
\* as an exception, and nothing is sent to the search service; once the
\* token is granted get_document always returns, an exception of the search
\* service as an error value with the requested id; search_documents and
\* suggest either return documents, none of them an error value, or raise the
\* exception of the search service.
C29_ErrorValueOnlyFromGetDocument ==
    \A r \in Reqs :
        (NeedsToken(r) /\ pc[r] \in {"completed", "failed"} /\ exchange[r] # <<>>) =>
            IF ~HasToken(exchange[r][1].result)
            THEN pc[r] = "failed" /\ outcome[r].kind = "raise" /\ store_call[r] = None
            ELSE IF req[r].op = "get_document"
            THEN /\ pc[r] = "completed" /\ outcome[r].kind = "return"
                 /\ "error" \in DOMAIN outcome[r].value =>
                        /\ "id" \in DOMAIN outcome[r].value
                        /\ outcome[r].value.id = req[r].id
            ELSE \/ /\ pc[r] = "failed" /\ outcome[r].kind = "raise"
                    /\ outcome[r].exc \in StoreErrors(r)
                 \/ /\ pc[r] = "completed" /\ outcome[r].kind = "return"
                    /\ \A i \in DOMAIN outcome[r].value.list :
                          "error" \notin DOMAIN outcome[r].value.list[i]

C29_Witness ==
    \E r, q \in Reqs :
        /\ DocumentFailed(r)
        /\ ExchangeRefused(q) /\ req[q].op = "get_document"

\* C30: msal_app, once set, is never set again, and every exchange is made
\* with it; while the client id or the tenant id is not set msal_app stays
\* None and a tool that needs the exchange raises 'MSAL app not initialized'
\* with no request to the provider. The earlier server module constructs its
\* application at most once, too.
C30_MsalAppSetOnce ==
    /\ [][/\ msal_app # None => msal_app' = msal_app
          /\ legacy.msal_app # 0 => legacy'.msal_app = legacy.msal_app]_vars
    /\ [](/\ msal_app # None => MsalVars \subseteq env
          /\ legacy.made <= 1
          /\ legacy.msal_app # 0 => MsalVars \subseteq legacy.environ
          /\ (legacy.msal_app = 0 /\ ~(MsalVars \subseteq legacy.environ)) =>
                legacy.raised \in {"", "MSAL app not initialized. Check AZURE_CLIENT_ID and AZURE_TENANT_ID."}
          /\ \A r \in Reqs :
                (NeedsToken(r) /\ pc[r] # "idle") =>
                    IF MsalVars \subseteq env
                    THEN msal_app # None /\ exchange[r] # <<>>
                    ELSE /\ msal_app = None
                         /\ pc[r] = "failed"
                         /\ outcome[r] = Raised(<<"MSAL app not initialized. Check AZURE_CLIENT_ID and AZURE_TENANT_ID.">>)
                         /\ exchange[r] = <<>>
                         /\ log[r] = <<>>)

C30_Witness ==
    /\ msal_app # None
    /\ legacy.msal_app # 0
    /\ \A r \in Reqs : NeedsToken(r) /\ pc[r] \in {"completed", "failed", "executing"}

C28_FailedConnectNotConnected ==
    /\ mcp_client._client \notin mcp_client.failed
    /\ mcp_client.last.op \in {"call_tool", "list_tools"} =>
          mcp_client.last.reached \notin mcp_client.failed
    /\ (mcp_client.last.op = "connect" /\ mcp_client.last.result = "returned") =>
          mcp_client._client \in mcp_client.opened
    /\ mcp_client.exited \cap mcp_client.failed = {}

\* C24: the graph runs validate_identity, then run_agent, then ends; with the
\* identity context, its token or the base URL missing validate_identity
\* raises ValueError, run_agent is not run, and no client is constructed.
C24_ValidateBeforeAgent ==
    LET Missing == IF graph.state.identity = None
                   THEN TRUE
                   ELSE \/ graph.state.identity.access_token = None
                        \/ graph.state.mcp_base_url = ""
    IN  /\ graph.visited \in {<<>>, <<"validate_identity">>,
                              <<"validate_identity", "run_agent">>}
        /\ graph.node = "END" => graph.visited = <<"validate_identity", "run_agent">>
        /\ graph.node = "run_agent" => graph.visited[1] = "validate_identity"
        /\ Missing =>
              /\ graph.node \in {"validate_identity", "raised"}
              /\ graph.node = "raised" =>
                    /\ graph.raised.type = "ValueError"
                    /\ graph.visited = <<"validate_identity">>
              /\ mcp_client = None
        /\ (~Missing /\ graph.node # "validate_identity") =>
              /\ graph.raised.type # "ValueError"
              /\ graph.node = "raised" =>
                    graph.visited = <<"validate_identity", "run_agent">>

C24_Witness ==
    /\ graph.state.identity # None
    /\ graph.state.identity.access_token # None
    /\ graph.state.mcp_base_url = ""
    /\ graph.node = "raised"
    /\ graph.raised = ValueError("MCP base URL is missing")

\* C25: when run_react_agent has returned or raised, disconnect has been
\* called, once, as the last call on the client, the client holds no Client
\* and none is open; while it runs, at most the Client it holds is open.
C25_AlwaysDisconnects ==
    /\ graph.step = "left" =>
          /\ graph.disconnects = 1
          /\ mcp_client.last.op = "disconnect"
          /\ mcp_client._client = 0
          /\ mcp_client.opened = {}
          /\ graph.node \in {"END", "raised"}
          /\ graph.node = "raised" <=> graph.pending # NoError
    /\ (graph.node \in {"END", "raised"} /\ mcp_client # None) => graph.step = "left"
    /\ graph.step \notin {"", "left"} =>
          /\ graph.disconnects = 0
          /\ mcp_client.opened \subseteq {mcp_client._client}

C25_Witness ==
    /\ graph.step = "left"
    /\ graph.raised.type = "AgentError"
    /\ mcp_client.exited = {1}
    /\ mcp_client.last.reached = 1

\* C26: after get_sample_documents the configured user id is in the oid list
\* of every document and the configured group id in its group list; each
\* list is the list of the file with the id after it when the file's list
\* did not have it, and unchanged when it had; the other fields are those of
\* the file. The ids _async_main adds after that extend the lists likewise.
C26_IdsInjectedOnce ==
    LET Extended(before, after, extra) ==
            LET added == SelectSeq(extra, LAMBDA id : id \notin Range(before))
            IN  /\ Len(after) = Len(before) + Len(added)
                /\ SubSeq(after, 1, Len(before)) = before
                /\ SubSeq(after, Len(before) + 1, Len(after)) = added
                /\ Range(extra) \subseteq Range(after)
    IN  /\ ingest.pc \in {"sampled", "injected"} =>
              /\ Len(ingest.sampled) = Len(ingest.file)
              /\ \A i \in DOMAIN ingest.file :
                    /\ Extended(ingest.file[i].oid, ingest.sampled[i].oid,
                                Extra(ingest.AI_SEARCH_QUERY_USER_ID))
                    /\ Extended(ingest.file[i].group, ingest.sampled[i].group,
                                Extra(ingest.AI_SEARCH_QUERY_GROUP_ID))
                    /\ ingest.sampled[i].id = ingest.file[i].id
                    /\ ingest.sampled[i].content = ingest.file[i].content
        /\ ingest.pc = "injected" =>
              \A i \in DOMAIN ingest.file :
                    /\ Extended(ingest.sampled[i].oid, ingest.documents[i].oid,
                                Extra(ingest.current_user_oid))
                    /\ Extended(ingest.sampled[i].group, ingest.documents[i].group,
                                ingest.current_user_groups)

C26_Witness ==
    /\ ingest.pc = "sampled"
    /\ ingest.AI_SEARCH_QUERY_USER_ID = "U1"
    /\ ingest.AI_SEARCH_QUERY_GROUP_ID = "G9"
    /\ ingest.file[1].oid = <<"U2", "U1">>
    /\ ingest.sampled[1].oid = <<"U2", "U1">>
    /\ ingest.sampled[2].oid = <<"U2", "U1">>
    /\ ingest.sampled[1].group = <<"G1", "G9">>

====
